---- MODULE Spec2Model ----
(***************************************************************************)
(* connectteam-cli (src/main.rs): a sequential program that loads a        *)
(* session, resolves the punch-clock object id, fetches the timesheet,     *)
(* parses it into TimesheetEntry values and draws a day-grouped table.     *)
(*                                                                         *)
(* Error values.  The program has no error enum: every fallible function   *)
(* returns Box<dyn Error> or panics.  The model names the outcomes         *)
(*   "TransportError"  Err(reqwest::Error) returned through `?`            *)
(*   "SchemaError"     Err(json::Error) returned through `?`               *)
(*   "NotFoundError"   the assert! of get_object_id_from_api fails         *)
(*   "Panic"           an unwrap() of None or a Vec index out of bounds    *)
(*   "InputError"      load_session_info_or_ask_user fails                 *)
(***************************************************************************)
EXTENDS Integers, Sequences, FiniteSets, TLC

VARIABLES
    pc,            \* the statement of main (and of the function it is in) to run next
    requested,     \* the date range the run was asked for
    session_info,  \* main's session_info
    object_id,     \* the id the last get_object_id_from_api returned
    resp,          \* main's resp: the timesheet response text
    entries,       \* main's entries
    table,         \* the rows of the table draw_timesheet printed
    calls,         \* the network calls issued so far, in order
    received,      \* what the network answered to each of them
    parsed,        \* the indices of the calls whose body was given to json::parse
    stdout,        \* the other lines printed
    err            \* how the run failed, "none" while it has not

vars == <<pc, requested, session_info, object_id, resp, entries, table,
          calls, received, parsed, stdout, err>>

(***************************************************************************)
(* Result and Option values                                                *)
(***************************************************************************)
Ok(v) == [ok |-> TRUE, v |-> v]
Err(e) == [ok |-> FALSE, e |-> e]
None == [some |-> FALSE]
Some(v) == [some |-> TRUE, v |-> v]

(***************************************************************************)
(* json::JsonValue.  A response text is either a JSON value or Garbage, a  *)
(* text json::parse rejects.                                               *)
(***************************************************************************)
Null == [k |-> "null"]
Str(s) == [k |-> "str", s |-> s]
Bool(b) == [k |-> "bool", b |-> b]
Number(positive, mantissa, exponent) ==
    [k |-> "num", positive |-> positive, mantissa |-> mantissa, exponent |-> exponent]
IntNum(n) == IF n >= 0 THEN Number(TRUE, n, 0) ELSE Number(FALSE, -n, 0)
Array(elems) == [k |-> "arr", a |-> elems]
Object(fields) == [k |-> "obj", o |-> fields]
EmptyObject == Object(<<>>)
Garbage == [k |-> "garbage"]

\* json::parse(&text)
json_parse(text) == IF text.k = "garbage" THEN Err("SchemaError") ELSE Ok(text)

\* value["key"]: Null unless value is an object holding the key
Field(j, key) == IF j.k = "obj" /\ key \in DOMAIN j.o THEN j.o[key] ELSE Null

\* value[i] on a JsonValue: Null unless value is an array with i in range
Elem(j, i) == IF j.k = "arr" /\ i < Len(j.a) THEN j.a[i + 1] ELSE Null

\* AsVec::as_vec: the elements of an array, the empty Vec for anything else
as_vec(j) == IF j.k = "arr" THEN j.a ELSE <<>>

\* value == "text" (PartialEq<&str> for JsonValue)
EqStr(j, s) == j.k = "str" /\ j.s = s

\* Display for JsonValue, as used by to_string(): a string prints its raw
\* text, null prints the four letters null, an integer its digits.  Fractions,
\* arrays and objects are not drawn for the text fields of this model.
to_string(j) ==
    CASE j.k = "null" -> "null"
      [] j.k = "str" -> j.s
      [] j.k = "num" /\ j.exponent = 0 ->
            (IF j.positive THEN "" ELSE "-") \o ToString(j.mantissa)
      [] j.k = "bool" -> IF j.b THEN "true" ELSE "false"

RECURSIVE Pow10(_)
Pow10(e) == IF e = 0 THEN 1 ELSE 10 * Pow10(e - 1)

\* json::number::Number::as_fixed_point_u64(0): None for a negative number,
\* otherwise the mantissa scaled by the exponent; the division truncates.
\* The multiplication wraps at 2^64 in the code; the numbers drawn here stay
\* far below that, so the product is exact.
as_fixed_point_u64(n) ==
    IF ~n.positive THEN None
    ELSE IF n.exponent = 0 THEN Some(n.mantissa)
    ELSE IF n.exponent < 0 THEN Some(n.mantissa \div Pow10(-n.exponent))
    ELSE Some(n.mantissa * Pow10(n.exponent))

\* JsonValue::as_i64 for the integer timestamps of the model: None for
\* anything that is not a number
as_i64(j) ==
    IF j.k # "num" THEN None
    ELSE IF j.exponent < 0
         THEN Some((IF j.positive THEN 1 ELSE -1) * (j.mantissa \div Pow10(-j.exponent)))
         ELSE Some((IF j.positive THEN 1 ELSE -1) * j.mantissa * Pow10(j.exponent))

\* iterator helpers
RECURSIVE Concat(_)
Concat(ss) == IF ss = <<>> THEN <<>> ELSE Head(ss) \o Concat(Tail(ss))

flat_map(s, F(_)) == Concat([i \in DOMAIN s |-> F(s[i])])
map(s, F(_)) == [i \in DOMAIN s |-> F(s[i])]

(***************************************************************************)
(* chrono: UTC calendar fields of an instant given in seconds since epoch  *)
(***************************************************************************)
\* proleptic Gregorian date <<year, month, day>> of a day number since epoch
CivilFromDays(days) ==
    LET z == days + 719468
        era == z \div 146097
        doe == z - era * 146097
        yoe == (doe - doe \div 1460 + doe \div 36524 - doe \div 146096) \div 365
        doy == doe - (365 * yoe + yoe \div 4 - yoe \div 100)
        mp == (5 * doy + 2) \div 153
        d == doy - (153 * mp + 2) \div 5 + 1
        m == IF mp < 10 THEN mp + 3 ELSE mp - 9
        y == yoe + era * 400 + (IF m <= 2 THEN 1 ELSE 0)
    IN <<y, m, d>>

date_naive(t) == CivilFromDays(t \div 86400)
year(t) == date_naive(t)[1]
month(t) == date_naive(t)[2]
day(t) == date_naive(t)[3]

Pad2(n) == IF n < 10 THEN "0" \o ToString(n) ELSE ToString(n)

\* time().format("%H:%M")
FormatHM(t) ==
    LET s == t % 86400
    IN Pad2(s \div 3600) \o ":" \o Pad2((s % 3600) \div 60)

(***************************************************************************)
(* The network.  A call either fails in send(), fails while the body is    *)
(* read by text(), or yields a response with an HTTP status and a body.    *)
(***************************************************************************)
SendErr == [k |-> "send_err"]
TextErr(status) == [k |-> "text_err", status |-> status]
Response(status, body) == [k |-> "response", status |-> status, body |-> body]

\* resp_raw?.text()?: the body text of whatever response arrived; the HTTP
\* status is not looked at
body_text(net) ==
    IF net.k = "response" THEN Ok(net.body) ELSE Err("TransportError")

\* the cookie header both endpoints send
cookie(si) == "session=" \o si.session \o "; _spirit=" \o si.spirit \o "; "

ContentStructureUrl == "https://app.connecteam.com/api/UserDashboard/ContentStructure/"
TimesheetUrl == "https://app.connecteam.com/api/UserDashboard/PunchClock/Timesheet/"
DataUrl == "https://app.connecteam.com/api/UserDashboard/PunchClock/Data/"

Call(method, url, si, body) ==
    [method |-> method, url |-> url, cookie |-> cookie(si), body |-> body]

(***************************************************************************)
(* get_object_id_from_api                                                  *)
(***************************************************************************)
\* the iterator chain collecting the numeric ids, in document order
object_ids(containers) ==
    LET ops == SelectSeq(as_vec(containers),
                         LAMBDA x : EqStr(Field(x, "name"), "Operations"))
        assets == flat_map(ops, LAMBDA x : as_vec(Field(x, "assets")))
        clocks == SelectSeq(assets,
                            LAMBDA x : EqStr(Field(x, "dashboardType"), "punchclock"))
        courses == flat_map(clocks, LAMBDA x : as_vec(Field(x, "courses")))
        sections == flat_map(courses, LAMBDA x : as_vec(Field(x, "sections")))
        objects == flat_map(sections, LAMBDA x : as_vec(Field(x, "objects")))
        numeric == SelectSeq(objects, LAMBDA x : Field(x, "id").k = "num")
    IN map(numeric, LAMBDA x : Field(x, "id"))

\* a wrong choice among the collected ids: the last one
last_index(ids) == Len(ids)

\* the index of the collected id the function returns
selected_index(ids) == 1

\* assert!, the warning and object_ids[0].as_fixed_point_u64(0).unwrap()
select_object_id(ids) ==
    IF Len(ids) = 0 THEN [res |-> Err("NotFoundError"), warn |-> FALSE]
    ELSE LET id == as_fixed_point_u64(ids[selected_index(ids)])
         IN [res |-> IF id.some THEN Ok(id.v) ELSE Err("Panic"),
             warn |-> Len(ids) > 1]

\* the whole function on the outcome `net` of its one GET:
\* res is its result, warn whether the warning was printed, parsed whether
\* the body was handed to json::parse
get_object_id_from_api(net) ==
    LET text == body_text(net)
    IN IF ~text.ok THEN [res |-> text, warn |-> FALSE, parsed |-> FALSE]
       ELSE LET doc == json_parse(text.v)
            IN IF ~doc.ok THEN [res |-> doc, warn |-> FALSE, parsed |-> TRUE]
               ELSE LET sel == select_object_id(
                                   object_ids(Field(Field(doc.v, "data"), "containers")))
                    IN [res |-> sel.res, warn |-> sel.warn, parsed |-> TRUE]

(***************************************************************************)
(* send_request_get_timesheet / send_request_get_punchclock_data payloads  *)
(***************************************************************************)
TimesheetParams(si, id) ==
    [startDate |-> "2023-02-01", endDate |-> "2023-02-28", objectId |-> id,
     defaultTimezone |-> "Europe/Warsaw", _spirit |-> si.spirit]

PunchclockDataParams(si, id) ==
    [objectId |-> id, defaultTimezone |-> "Europe/Warsaw", _spirit |-> si.spirit]

(***************************************************************************)
(* parse_timesheet                                                         *)
(***************************************************************************)
\* the closure parse_timestamp: None stands for the panic of either unwrap
parse_timestamp(timestamp) ==
    as_i64(Field(Field(timestamp, "timestampWithTimezone"), "timestamp"))

\* shift["shiftAttachments"].as_vec()[0]["freeText"].to_string(); indexing
\* the Vec panics when it is empty: None stands for that panic
free_text_of(shift) ==
    LET atts == as_vec(Field(shift, "shiftAttachments"))
    IN IF Len(atts) = 0 THEN None ELSE Some(to_string(Field(atts[1], "freeText")))

notes_of(shift) == to_string(Field(shift, "employeeNotes"))

\* the if / else-if chain that sets desc
merge_desc(free_text, notes) ==
    IF ~(free_text = "" \/ free_text = "null") /\ notes # ""
    THEN free_text \o " / " \o notes
    ELSE IF ~(free_text = "" \/ free_text = "null") THEN free_text
    ELSE IF notes # "" THEN notes
    ELSE ""

project_of(shift) == to_string(Field(Field(shift, "punchTag"), "name"))

subproject_of(shift) ==
    to_string(Field(Elem(Field(Field(shift, "punchTag"), "subItems"), 0), "name"))

\* the map closure: the TimesheetEntry of one shift, or the panic
shift_entry(shift) ==
    LET free_text == free_text_of(shift)
        start == parse_timestamp(Field(shift, "punchIn"))
        end == parse_timestamp(Field(shift, "punchOut"))
    IN IF ~free_text.some \/ ~start.some \/ ~end.some THEN Err("Panic")
       ELSE Ok([start |-> start.v, end |-> end.v,
                desc |-> merge_desc(free_text.v, notes_of(shift)),
                project |-> project_of(shift),
                subproject |-> subproject_of(shift)])

\* the flattened shift records of a parsed document
shifts_of(doc) ==
    LET time_sheet_entries ==
            Field(Field(Field(doc, "data"), "userTimeSheets"), "timeSheetEntries")
        days == flat_map(as_vec(time_sheet_entries),
                         LAMBDA x : as_vec(Field(x, "timeSheetDayEntries")))
    IN flat_map(days, LAMBDA x : as_vec(Field(x, "shifts")))

parse_timesheet(text) ==
    LET doc == json_parse(text)
    IN IF ~doc.ok THEN doc
       ELSE LET made == map(shifts_of(doc.v), shift_entry)
            IN IF \E i \in DOMAIN made : ~made[i].ok THEN Err("Panic")
               ELSE Ok([i \in DOMAIN made |-> made[i].v])

(***************************************************************************)
(* parse_punchclock: what its two println! calls print                     *)
(***************************************************************************)
shift_attachment(doc) ==
    map(as_vec(Field(Field(Field(doc, "data"), "punchClockSettings"), "shiftAttachments")),
        LAMBDA x : <<to_string(Field(x, "id")), to_string(Field(x, "name")),
                     to_string(Field(x, "type"))>>)

available_tags(doc) ==
    flat_map(as_vec(Field(Field(doc, "data"), "availableTags")),
             LAMBDA x :
                 LET sub_items == as_vec(Field(x, "subItems"))
                 IN IF sub_items = <<>> THEN << <<to_string(Field(x, "name")), "">> >>
                    ELSE map(sub_items,
                             LAMBDA y : <<to_string(Field(x, "name")),
                                          to_string(Field(y, "name"))>>))

parse_punchclock(text) ==
    LET doc == json_parse(text)
    IN IF ~doc.ok THEN doc
       ELSE Ok(<<[tag |-> "shift_attachment", v |-> shift_attachment(doc.v)],
                 [tag |-> "available_tags", v |-> available_tags(doc.v)]>>)

(***************************************************************************)
(* draw_timesheet                                                          *)
(***************************************************************************)
\* entries.sort_by_key(|k| k.start): a stable sort, here by insertion of each
\* element behind the elements that are not greater
RECURSIVE sort_by_key(_)
sort_by_key(s) ==
    IF Len(s) <= 1 THEN s
    ELSE LET init == sort_by_key(SubSeq(s, 1, Len(s) - 1))
             x == s[Len(s)]
             n == Cardinality({i \in DOMAIN init : init[i].start <= x.start})
         IN SubSeq(init, 1, n) \o <<x>> \o SubSeq(init, n + 1, Len(init))

\* entries.reverse()
reverse(s) == [i \in 1..Len(s) |-> s[Len(s) + 1 - i]]

\* a wrong ordering step: one stable sort by start descending
RECURSIVE sort_descending(_)
sort_descending(s) ==
    IF Len(s) <= 1 THEN s
    ELSE LET init == sort_descending(SubSeq(s, 1, Len(s) - 1))
             x == s[Len(s)]
             n == Cardinality({i \in DOMAIN init : init[i].start >= x.start})
         IN SubSeq(init, 1, n) \o <<x>> \o SubSeq(init, n + 1, Len(init))

\* the ordering step: sort_by_key, then reverse
ordered(s) == reverse(sort_by_key(s))

\* a wrong group_by predicate: the day of the month alone
same_day_of_month(k, l) == day(k.start) = day(l.start)

\* the group_by predicate
same_day(k, l) ==
    /\ day(k.start) = day(l.start)
    /\ month(k.start) = month(l.start)
    /\ year(k.start) = year(l.start)

\* slice::group_by: the maximal runs of neighbours the predicate joins
RECURSIVE group_by(_)
group_by(s) ==
    IF s = <<>> THEN <<>>
    ELSE LET ends == {i \in 1..Len(s) : i = Len(s) \/ ~same_day(s[i], s[i + 1])}
             n == CHOOSE i \in ends : \A j \in ends : i <= j
         IN <<SubSeq(s, 1, n)>> \o group_by(SubSeq(s, n + 1, Len(s)))

\* a calendar date <<year, month, day>> as YYYY-MM-DD
FormatYMD(d) == ToString(d[1]) \o "-" \o Pad2(d[2]) \o "-" \o Pad2(d[3])

\* Display of date_naive()
FormatDate(t) == FormatYMD(date_naive(t))

HeaderRow ==
    [kind |-> "columns",
     cells |-> <<"Start", "End", "Description", "Project", "Subproject">>]

DayRow(group) == [kind |-> "day", cells |-> <<FormatDate(group[1].start)>>]

EntryRow(entry) ==
    [kind |-> "entry",
     cells |-> <<FormatHM(entry.start), FormatHM(entry.end), entry.desc,
                 entry.project, entry.subproject>>]

\* the rows added to the table: the column header, then for each group its
\* day row and its entries' rows
table_rows(sorted) ==
    <<HeaderRow>> \o
    flat_map(group_by(sorted), LAMBDA g : <<DayRow(g)>> \o map(g, EntryRow))

(***************************************************************************)
(* load_session_info_or_ask_user.  The environment is either the stored    *)
(* file (its deserialisation succeeds or fails) or the pasted cookie line, *)
(* given as the pieces left by the split on ";" and on "=" with trim.      *)
(***************************************************************************)
StoredFile(content) == [k |-> "file", content |-> content]
Prompt(pieces, write_ok) == [k |-> "prompt", pieces |-> pieces, write_ok |-> write_ok]

\* the closure extract_field_from_cookie: None stands for the panic of [1]
extract_field_from_cookie(pieces, field) ==
    LET hits == Concat(SelectSeq(SelectSeq(pieces, LAMBDA x : Len(x) = 2),
                                 LAMBDA x : x[1] = field))
    IN IF Len(hits) < 2 THEN None ELSE Some(hits[2])

load_session_info_or_ask_user(env) ==
    IF env.k = "file"
    THEN (IF env.content.some THEN Ok(env.content.v) ELSE Err("InputError"))
    ELSE LET session == extract_field_from_cookie(env.pieces, "session")
             spirit == extract_field_from_cookie(env.pieces, "_spirit")
         IN IF ~session.some \/ ~spirit.some THEN Err("Panic")
            ELSE IF ~env.write_ok THEN Err("InputError")
            ELSE Ok([session |-> session.v, spirit |-> spirit.v])

(***************************************************************************)
(* The program: main and the functions it calls, one action per call       *)
(***************************************************************************)
NoText == [k |-> "none"]
NoSession == [session |-> "", spirit |-> ""]

Fail(e) == pc' = "failed" /\ err' = e

IsResponse(net) == net.k = "response"

\* let session_info = load_session_info_or_ask_user()?;
LoadSession(envs) ==
    /\ pc = "load"
    /\ \E env \in envs :
          LET r == load_session_info_or_ask_user(env)
          IN IF r.ok
             THEN session_info' = r.v /\ pc' = "resolve_ts" /\ err' = err
             ELSE session_info' = session_info /\ Fail(r.e)
    /\ UNCHANGED <<requested, object_id, resp, entries, table, calls, received,
                   parsed, stdout>>

\* get_object_id_from_api(&session_info)?, called at `from`
ResolveObjectId(from, to, nets) ==
    /\ pc = from
    /\ \E net \in nets :
          LET r == get_object_id_from_api(net)
          IN /\ calls' = Append(calls, Call("GET", ContentStructureUrl, session_info, None))
             /\ received' = Append(received, net)
             /\ parsed' = IF r.parsed THEN Append(parsed, Len(calls) + 1) ELSE parsed
             /\ stdout' = IF r.warn
                          THEN Append(stdout, [tag |-> "WARN",
                                               v |-> "Found more then one matching object id!"])
                          ELSE stdout
             /\ IF r.res.ok
                THEN object_id' = Some(r.res.v) /\ pc' = to /\ err' = err
                ELSE object_id' = object_id /\ Fail(r.res.e)
    /\ UNCHANGED <<requested, session_info, resp, entries, table>>

\* the rest of send_request_get_timesheet: the POST and resp_raw?.text()?
FetchTimesheet(nets) ==
    /\ pc = "fetch_ts"
    /\ \E net \in nets :
          LET text == body_text(net)
          IN /\ calls' = Append(calls, Call("POST", TimesheetUrl, session_info,
                                            TimesheetParams(session_info, object_id.v)))
             /\ received' = Append(received, net)
             /\ IF text.ok
                THEN resp' = text.v /\ pc' = "parse_ts" /\ err' = err
                ELSE resp' = resp /\ Fail(text.e)
    /\ UNCHANGED <<requested, session_info, object_id, entries, table, parsed, stdout>>

\* let mut entries = parse_timesheet(resp)?;
ParseTimesheet ==
    /\ pc = "parse_ts"
    /\ LET r == parse_timesheet(resp)
       IN IF r.ok
          THEN entries' = r.v /\ pc' = "resolve_pd" /\ err' = err
          ELSE entries' = entries /\ Fail(r.e)
    /\ parsed' = Append(parsed, Len(calls))
    /\ UNCHANGED <<requested, session_info, object_id, resp, table, calls, received,
                   stdout>>

\* the rest of send_request_get_punchclock_data followed by
\* parse_punchclock(punchlock_data_resp)?
FetchPunchclockData(nets) ==
    /\ pc = "fetch_pd"
    /\ \E net \in nets :
          LET text == body_text(net)
              r == IF text.ok THEN parse_punchclock(text.v) ELSE text
          IN /\ calls' = Append(calls, Call("POST", DataUrl, session_info,
                                            PunchclockDataParams(session_info, object_id.v)))
             /\ received' = Append(received, net)
             /\ parsed' = IF text.ok THEN Append(parsed, Len(calls) + 1) ELSE parsed
             /\ IF r.ok
                THEN stdout' = stdout \o r.v /\ pc' = "draw" /\ err' = err
                ELSE stdout' = stdout /\ Fail(r.e)
    /\ UNCHANGED <<requested, session_info, object_id, resp, entries, table>>

\* draw_timesheet(&mut entries); Ok(())
DrawTimesheet ==
    /\ pc = "draw"
    /\ entries' = ordered(entries)
    /\ table' = table_rows(entries')
    /\ pc' = "done"
    /\ UNCHANGED <<requested, session_info, object_id, resp, calls, received, parsed,
                   stdout, err>>

(***************************************************************************)
(* Inputs: the environments and responses the runs are checked on          *)
(***************************************************************************)
RECURSIVE SeqsUpTo(_, _)
\* the sequences over S of length at most n
SeqsUpTo(S, n) ==
    IF n = 0 THEN {<<>>}
    ELSE LET shorter == SeqsUpTo(S, n - 1)
         IN shorter \cup {Append(q, x) : q \in {r \in shorter : Len(r) = n - 1}, x \in S}

Statuses == {200, 500}
IsSuccess(status) == status >= 200 /\ status <= 299

NetResults(bodies) ==
    {SendErr} \cup {TextErr(st) : st \in Statuses}
              \cup {Response(st, b) : st \in Statuses, b \in bodies}

SessionA == [session |-> "s1", spirit |-> "sp1"]

SessionEnvs ==
    {StoredFile(Some(SessionA)), StoredFile(None),
     Prompt(<< <<"session", "s2">>, <<"_spirit", "sp2">>, <<"">> >>, TRUE),
     Prompt(<< <<"theme", "dark">>, <<"_spirit", "sp2">>, <<"session", "s2">> >>, FALSE),
     Prompt(<< <<"session", "s2">>, <<"path", "a", "b">> >>, TRUE)}

\* the ranges a run may be asked for
Ranges ==
    {[start |-> <<2023, 2, 1>>, end |-> <<2023, 2, 28>>],
     [start |-> <<2023, 3, 1>>, end |-> <<2023, 3, 31>>]}

\* ---- content-structure documents
IdObject(id) == Object([id |-> id])

\* a container with one asset, one course, one section and the given objects
Container(name, type, objects) ==
    Object([name |-> Str(name),
            assets |-> Array(<<Object([dashboardType |-> Str(type),
                courses |-> Array(<<Object([sections |-> Array(<<
                    Object([objects |-> Array(objects)])>>)])>>)])>>)])

ContentDoc(containers) == Object([data |-> Object([containers |-> Array(containers)])])

IdValues ==
    {IntNum(7), Number(TRUE, 1, 1), IntNum(-7), Number(TRUE, 15, -1), Str("7")}

Leaves ==
    {Container(nt[1], nt[2], <<IdObject(id)>>) :
        nt \in {<<"Operations", "punchclock">>, <<"Operations", "course">>,
                <<"Other", "punchclock">>},
        id \in IdValues \ {Str("7")}}
    \cup {Container("Operations", "punchclock", <<IdObject(Str("7"))>>)}

MaxContainers == 3

\* documents that are not a list of one-object containers
OddContentDocs ==
    {Garbage, EmptyObject, Object([data |-> Str("x")]),
     Object([data |-> Object([containers |-> Str("x")])]),
     ContentDoc(<<Object([name |-> Str("Operations")])>>),
     ContentDoc(<<Container("Operations", "punchclock",
                            <<IdObject(IntNum(7)), EmptyObject, IdObject(IntNum(9))>>)>>),
     ContentDoc(<<Container("Operations", "punchclock",
                            <<IdObject(IntNum(-7)), IdObject(IntNum(9))>>)>>)}

ResolverNets ==
    {SendErr} \cup {TextErr(st) : st \in Statuses}
              \cup {Response(st, b) : st \in Statuses, b \in OddContentDocs}
              \cup {Response(200, ContentDoc(cs)) : cs \in SeqsUpTo(Leaves, MaxContainers)}

\* the few content documents of whole runs
RunContentDocs ==
    {Garbage, ContentDoc(<<>>),
     ContentDoc(<<Container("Operations", "punchclock", <<IdObject(IntNum(7))>>)>>),
     ContentDoc(<<Container("Operations", "punchclock",
                            <<IdObject(IntNum(9)), IdObject(IntNum(7))>>)>>)}

\* ---- timesheet documents
Timestamp(t) == Object([timestampWithTimezone |-> Object([timestamp |-> t])])

TimesheetDoc(days) ==
    Object([data |-> Object([userTimeSheets |-> Object([timeSheetEntries |->
        Array(<<Object([timeSheetDayEntries |-> Array(days)])>>)])])])

DayEntry(shifts) == Object([shifts |-> Array(shifts)])

\* the fields of a shift record: f maps the names of the fields present
Shift(f) == Object(f)

\* 2023-02-01 10:00:00 UTC, day 19389 since the epoch
T0 == 19389 * 86400 + 36000

Punches(start, end) ==
    [punchIn |-> Timestamp(IntNum(start)), punchOut |-> Timestamp(IntNum(end))]

AttachmentChoices ==
    {<<>>,
     [shiftAttachments |-> Str("x")],
     [shiftAttachments |-> Array(<<>>)],
     [shiftAttachments |-> Array(<<EmptyObject>>)],
     [shiftAttachments |-> Array(<<Object([freeText |-> Null])>>)],
     [shiftAttachments |-> Array(<<Object([freeText |-> Str("")])>>)],
     [shiftAttachments |-> Array(<<Object([freeText |-> Str("null")])>>)],
     [shiftAttachments |-> Array(<<Object([freeText |-> Str("Lunch")])>>)],
     [shiftAttachments |-> Array(<<Object([freeText |-> Str("Lunch")]),
                                   Object([freeText |-> Str("Second")])>>)]}

NotesChoices ==
    {<<>>, [employeeNotes |-> Null], [employeeNotes |-> Str("")],
     [employeeNotes |-> Str("null")], [employeeNotes |-> Str("Covered B")]}

TagChoices ==
    {<<>>,
     [punchTag |-> EmptyObject],
     [punchTag |-> Object([name |-> Str("Proj")])],
     [punchTag |-> Object([name |-> Str("Proj"), subItems |-> Array(<<>>)])],
     [punchTag |-> Object([name |-> Str("Proj"), subItems |-> Array(<<EmptyObject>>)])],
     [punchTag |-> Object([name |-> Str("Proj"),
                           subItems |-> Array(<<Object([name |-> Str("Sub")])>>)])],
     [punchTag |-> Object([name |-> Str("Proj"),
                           subItems |-> Array(<<Object([name |-> Str("Sub")]),
                                                Object([name |-> Str("Other")])>>)])],
     [punchTag |-> Object([name |-> Null, subItems |-> Str("x")])]}

\* the union of records over disjoint field names
Merge(f, g) == [x \in DOMAIN f \cup DOMAIN g |-> IF x \in DOMAIN f THEN f[x] ELSE g[x]]

ShiftChoices ==
    {Shift(Merge(Punches(T0, T0 + 3600), Merge(a, Merge(n, t)))) :
        a \in AttachmentChoices, n \in NotesChoices, t \in TagChoices}

\* the end-to-end document of the specification: two day entries of one shift
EndToEndDoc ==
    TimesheetDoc(<<
        DayEntry(<<Shift(Merge(Punches(T0, T0 + 3600),
                     [employeeNotes |-> Str("Covered B"),
                      shiftAttachments |-> Array(<<Object([freeText |-> Str("")])>>)]))>>),
        DayEntry(<<Shift(Merge(Punches(T0 + 86400, T0 + 90000),
                     [employeeNotes |-> Str(""),
                      shiftAttachments |-> Array(<<Object([freeText |-> Str("Lunch")])>>),
                      punchTag |-> Object([name |-> Str("Proj"),
                                           subItems |-> Array(<<>>)])]))>>)>>)

\* documents without the path, or with a node of the wrong kind on it
OddTimesheetDocs ==
    {Garbage, EmptyObject, Null, Object([data |-> EmptyObject]),
     Object([data |-> Object([userTimeSheets |-> EmptyObject])]),
     Object([data |-> Object([userTimeSheets |->
                 Object([timeSheetEntries |-> Str("x")])])]),
     Object([data |-> Object([userTimeSheets |->
                 Object([timeSheetEntries |-> Array(<<>>)])])]),
     Object([data |-> Object([userTimeSheets |->
                 Object([timeSheetEntries |-> Array(<<EmptyObject, Str("x")>>)])])]),
     TimesheetDoc(<<EmptyObject, DayEntry(<<>>)>>),
     TimesheetDoc(<<DayEntry(<<Shift([punchOut |-> Timestamp(IntNum(T0)),
                                      shiftAttachments |-> Array(<<EmptyObject>>)])>>)>>),
     TimesheetDoc(<<DayEntry(<<Shift([punchIn |-> Timestamp(Str("10:00")),
                                      punchOut |-> Timestamp(IntNum(T0)),
                                      shiftAttachments |-> Array(<<EmptyObject>>)])>>)>>),
     EndToEndDoc}

ParserTexts ==
    OddTimesheetDocs \cup {TimesheetDoc(<<DayEntry(<<sh>>)>>) : sh \in ShiftChoices}

RunTimesheetTexts ==
    {Garbage, EmptyObject, EndToEndDoc,
     TimesheetDoc(<<DayEntry(<<Shift(Punches(T0, T0 + 3600))>>)>>)}

\* ---- punch-clock data documents
RunDataTexts ==
    {Garbage, EmptyObject,
     Object([data |-> Object([
        punchClockSettings |-> Object([shiftAttachments |->
            Array(<<Object([id |-> IntNum(3), name |-> Str("Note"),
                            type |-> Str("freeText")])>>)]),
        availableTags |-> Array(<<Object([name |-> Str("Proj")]),
            Object([name |-> Str("Proj2"),
                    subItems |-> Array(<<Object([name |-> Str("Sub")])>>)])>>)])])}

\* ---- entry lists for draw_timesheet
Labels == <<"A", "B", "C", "D", "E", "F">>

\* 1969-12-31 23:59, 1970-01-01 00:00, 09:00 and 10:00, 1970-01-02 00:00,
\* 1970-02-01 00:00 and 1971-01-01 10:00
Starts == {-60, 0, 32400, 36000, 86400, 2678400, 31572000}

MaxEntries == 3

\* the i-th shift of a drawn document: its notes tell its place in the input
LabelledShift(start, i) ==
    Shift(Merge(Punches(start, start + 1800),
                [employeeNotes |-> Str(Labels[i]),
                 shiftAttachments |-> Array(<<EmptyObject>>),
                 punchTag |-> Object([name |-> Str("Proj"),
                                      subItems |-> Array(<<Object([name |-> Str("Sub")])>>)])]))

DrawTexts ==
    {TimesheetDoc(<<DayEntry([i \in DOMAIN q |-> LabelledShift(q[i], i)])>>) :
        q \in SeqsUpTo(Starts, MaxEntries)}

(***************************************************************************)
(* Specifications                                                          *)
(***************************************************************************)
GoodContent ==
    Response(200, ContentDoc(<<Container("Operations", "punchclock",
                                         <<IdObject(IntNum(7))>>)>>))

ContentCall == Call("GET", ContentStructureUrl, SessionA, None)
TimesheetCall == Call("POST", TimesheetUrl, SessionA, TimesheetParams(SessionA, 7))
DataCall == Call("POST", DataUrl, SessionA, PunchclockDataParams(SessionA, 7))

\* a whole run, from the start of main
Init ==
    /\ pc = "load"
    /\ requested \in Ranges
    /\ session_info = NoSession
    /\ object_id = None
    /\ resp = NoText
    /\ entries = <<>>
    /\ table = <<>>
    /\ calls = <<>>
    /\ received = <<>>
    /\ parsed = <<>>
    /\ stdout = <<>>
    /\ err = "none"

Load == LoadSession(SessionEnvs)
ResolveForTimesheet ==
    ResolveObjectId("resolve_ts", "fetch_ts", NetResults(RunContentDocs))
SendTimesheetRequest == FetchTimesheet(NetResults(RunTimesheetTexts))
ResolveForPunchclockData ==
    ResolveObjectId("resolve_pd", "fetch_pd", NetResults(RunContentDocs))
SendPunchclockDataRequest == FetchPunchclockData(NetResults(RunDataTexts))

Next ==
    \/ Load
    \/ ResolveForTimesheet
    \/ SendTimesheetRequest
    \/ ParseTimesheet
    \/ ResolveForPunchclockData
    \/ SendPunchclockDataRequest
    \/ DrawTimesheet

Spec == Init /\ [][Next]_vars

\* get_object_id_from_api on every content-structure answer: the run has
\* loaded its session and is about to resolve the object id
InitResolver ==
    /\ pc = "resolve_ts"
    /\ requested \in Ranges
    /\ session_info = SessionA
    /\ object_id = None
    /\ resp = NoText
    /\ entries = <<>>
    /\ table = <<>>
    /\ calls = <<>>
    /\ received = <<>>
    /\ parsed = <<>>
    /\ stdout = <<>>
    /\ err = "none"

ResolveAnyContent == ResolveObjectId("resolve_ts", "fetch_ts", ResolverNets)

SpecResolver == InitResolver /\ [][ResolveAnyContent]_vars

\* parse_timesheet on every timesheet text: the run has received the text
InitParser ==
    /\ pc = "parse_ts"
    /\ requested \in Ranges
    /\ session_info = SessionA
    /\ object_id = Some(7)
    /\ resp \in ParserTexts
    /\ entries = <<>>
    /\ table = <<>>
    /\ calls = <<ContentCall, TimesheetCall>>
    /\ received = <<GoodContent, Response(200, resp)>>
    /\ parsed = <<1>>
    /\ stdout = <<>>
    /\ err = "none"

SpecParser == InitParser /\ [][ParseTimesheet]_vars

\* draw_timesheet on every parsed list: the run has parsed a timesheet and
\* the punch-clock data and is about to draw
InitDraw ==
    /\ pc = "draw"
    /\ requested \in Ranges
    /\ session_info = SessionA
    /\ object_id = Some(7)
    /\ resp \in DrawTexts
    /\ entries = parse_timesheet(resp).v
    /\ table = <<>>
    /\ calls = <<ContentCall, TimesheetCall, ContentCall, DataCall>>
    /\ received = <<GoodContent, Response(200, resp), GoodContent,
                    Response(200, EmptyObject)>>
    /\ parsed = <<1, 2, 3, 4>>
    /\ stdout = parse_punchclock(EmptyObject).v
    /\ err = "none"

SpecDraw == InitDraw /\ [][DrawTimesheet]_vars

(***************************************************************************)
(* Properties                                                              *)
(***************************************************************************)
\* a text candidate is present: a string other than "" and "null"
Present(j) == j.k = "str" /\ j.s # "" /\ j.s # "null"

\* a field is there: the navigation does not end in Null
Exists(j) == j.k # "null"

\* the desc the merge policy gives two candidates
PolicyDesc(ft, nt) ==
    IF Present(ft) /\ Present(nt) THEN ft.s \o " / " \o nt.s
    ELSE IF Present(ft) THEN ft.s
    ELSE IF Present(nt) THEN nt.s
    ELSE ""

FreeTextCandidate(shift) == Field(Elem(Field(shift, "shiftAttachments"), 0), "freeText")
NotesCandidate(shift) == Field(shift, "employeeNotes")

ParseActed == pc # "parse_ts"
ParseSucceeded == pc = "resolve_pd"
RespIsJson == resp.k \notin {"garbage", "none"}
ShiftsOfResp == shifts_of(resp)

\* C1: every produced entry's desc is the merge of the freeText candidate of
\* the first attachment and the employeeNotes candidate, each candidate not
\* present when absent, empty or the text "null".
C1_DescMergesNormalizedCandidates ==
    ParseSucceeded =>
        \A i \in DOMAIN entries :
            entries[i].desc = PolicyDesc(FreeTextCandidate(ShiftsOfResp[i]),
                                         NotesCandidate(ShiftsOfResp[i]))

HasTimestamps(shift) ==
    /\ parse_timestamp(Field(shift, "punchIn")).some
    /\ parse_timestamp(Field(shift, "punchOut")).some

NoAttachments(shift) == as_vec(Field(shift, "shiftAttachments")) = <<>>

\* C2: a shift whose shiftAttachments is absent, not a list or an empty list
\* does not abort parse_timesheet: its entry is produced, with the desc its
\* employeeNotes alone determine.
C2_MissingAttachmentsDoNotAbort ==
    (/\ ParseActed
     /\ RespIsJson
     /\ \A i \in DOMAIN ShiftsOfResp : HasTimestamps(ShiftsOfResp[i])
     /\ \E i \in DOMAIN ShiftsOfResp : NoAttachments(ShiftsOfResp[i]))
    => /\ ParseSucceeded
       /\ Len(entries) = Len(ShiftsOfResp)
       /\ \A i \in DOMAIN ShiftsOfResp :
             NoAttachments(ShiftsOfResp[i]) =>
                 entries[i].desc = PolicyDesc(Null, NotesCandidate(ShiftsOfResp[i]))

TextOrEmpty(j) == IF Exists(j) THEN to_string(j) ELSE ""

\* C3: every produced entry has project = punchTag.name and subproject =
\* punchTag.subItems[0].name, each the empty string when absent, and never
\* the text "null".
C3_ProjectAndSubprojectDefaultToEmpty ==
    ParseSucceeded =>
        \A i \in DOMAIN entries :
            LET tag == Field(ShiftsOfResp[i], "punchTag")
            IN /\ entries[i].project = TextOrEmpty(Field(tag, "name"))
               /\ entries[i].subproject =
                      TextOrEmpty(Field(Elem(Field(tag, "subItems"), 0), "name"))
               /\ entries[i].project # "null"
               /\ entries[i].subproject # "null"

\* the document holds the keys data, userTimeSheets and timeSheetEntries
HasEntriesPath(doc) ==
    /\ doc.k = "obj" /\ "data" \in DOMAIN doc.o
    /\ doc.o.data.k = "obj" /\ "userTimeSheets" \in DOMAIN doc.o.data.o
    /\ doc.o.data.o.userTimeSheets.k = "obj"
    /\ "timeSheetEntries" \in DOMAIN doc.o.data.o.userTimeSheets.o

\* C5: parse_timesheet fails with SchemaError, and returns no list, for a
\* text that is not JSON or that lacks data.userTimeSheets.timeSheetEntries.
C5_MissingPathIsSchemaError ==
    (ParseActed /\ (resp.k = "garbage" \/ (RespIsJson /\ ~HasEntriesPath(resp))))
    => (pc = "failed" /\ err = "SchemaError")

Urls == [i \in DOMAIN calls |-> calls[i].url]

\* C6: a run that reaches rendering has issued exactly one object-id
\* resolution call followed by exactly one timesheet call, and no other.
C6_TwoCallsBeforeRendering ==
    pc \in {"draw", "done"} => Urls = <<ContentStructureUrl, TimesheetUrl>>

\* C7: the timesheet request body carries the start and end date the run was
\* given, as YYYY-MM-DD, the resolved object id and the session's spirit.
C7_BodyCarriesRequestedRange ==
    pc = "parse_ts" =>
        LET body == calls[Len(calls)].body
        IN /\ body.startDate = FormatYMD(requested.start)
           /\ body.endDate = FormatYMD(requested.end)
           /\ body.objectId = object_id.v
           /\ body._spirit = session_info.spirit

Failed(net) == ~IsResponse(net) \/ ~IsSuccess(net.status)

\* C8: a call that fails at the network level or gets a non-success status
\* ends the run with TransportError, and its body is not parsed.
C8_FailedCallIsTransportError ==
    \A i \in DOMAIN received :
        Failed(received[i]) =>
            /\ pc = "failed" /\ err = "TransportError"
            /\ i = Len(received)
            /\ \A n \in DOMAIN parsed : parsed[n] # i

(***************************************************************************)
(* The object ids of a content-structure document, stated on the document: *)
(* the index paths container, asset, course, section, object that lead to  *)
(* an object with a numeric id below an "Operations" container and a       *)
(* "punchclock" asset; document order is the order of the paths.           *)
(***************************************************************************)
ContainersOf(doc) == as_vec(Field(Field(doc, "data"), "containers"))
AssetsAt(doc, c) == as_vec(Field(ContainersOf(doc)[c], "assets"))
CoursesAt(doc, c, a) == as_vec(Field(AssetsAt(doc, c)[a], "courses"))
SectionsAt(doc, c, a, n) == as_vec(Field(CoursesAt(doc, c, a)[n], "sections"))
ObjectsAt(doc, c, a, n, m) == as_vec(Field(SectionsAt(doc, c, a, n)[m], "objects"))

ObjectPaths(doc) ==
    UNION {UNION {UNION {UNION {
        {<<c, a, n, m, o>> : o \in DOMAIN ObjectsAt(doc, c, a, n, m)} :
            m \in DOMAIN SectionsAt(doc, c, a, n)} :
            n \in DOMAIN CoursesAt(doc, c, a)} :
            a \in DOMAIN AssetsAt(doc, c)} :
            c \in DOMAIN ContainersOf(doc)}

IdAt(doc, p) == Field(ObjectsAt(doc, p[1], p[2], p[3], p[4])[p[5]], "id")

MatchingPaths(doc) ==
    {p \in ObjectPaths(doc) :
        /\ EqStr(Field(ContainersOf(doc)[p[1]], "name"), "Operations")
        /\ EqStr(Field(AssetsAt(doc, p[1])[p[2]], "dashboardType"), "punchclock")
        /\ IdAt(doc, p).k = "num"}

Before(p, q) == \E i \in 1..5 : p[i] < q[i] /\ \A j \in 1..(i - 1) : p[j] = q[j]

FirstPath(doc) ==
    CHOOSE p \in MatchingPaths(doc) : \A q \in MatchingPaths(doc) \ {p} : Before(p, q)

\* the JSON number n has exactly the integer value v
HasValue(n, v) ==
    IF n.exponent >= 0
    THEN (IF n.positive THEN 1 ELSE -1) * n.mantissa * Pow10(n.exponent) = v
    ELSE n.positive /\ n.mantissa = v * Pow10(-n.exponent)

IsUnsignedInteger(n) ==
    n.positive /\ (n.exponent >= 0 \/ n.mantissa % Pow10(-n.exponent) = 0)

\* v is n without its fraction
IsIntegerPartOf(v, n) ==
    IF n.exponent >= 0 THEN HasValue(n, v)
    ELSE v * Pow10(-n.exponent) <= n.mantissa
         /\ n.mantissa < (v + 1) * Pow10(-n.exponent)

\* the resolver has run on a response whose body is JSON
ResolvedOnJson ==
    /\ pc \in {"fetch_ts", "failed"}
    /\ Len(received) = 1
    /\ IsResponse(received[1])
    /\ received[1].body.k # "garbage"

ContentBody == received[1].body
ReturnedSome == pc = "fetch_ts" /\ err = "none" /\ object_id.some
Returned(v) == ReturnedSome /\ object_id.v = v

SortedThenReversed(s, r) ==
    /\ Len(r) = Len(s)
    /\ \E f \in Permutations(1..Len(s)) :
          /\ \A i \in DOMAIN r : r[i] = s[f[i]]
          /\ \A i, j \in DOMAIN r :
                i < j => /\ r[i].start >= r[j].start
                         /\ r[i].start = r[j].start => f[i] > f[j]

\* C9: the ordering step of draw_timesheet leaves a permutation of its input
\* in non-increasing start order, entries of equal start in the reverse of
\* their original order.
C9_OrderingStep ==
    [][(pc = "draw" /\ pc' = "done") => SortedThenReversed(entries, entries')]_vars

Descs == [i \in DOMAIN entries |-> entries[i].desc]
StartTimes == [i \in DOMAIN entries |-> FormatHM(entries[i].start)]

\* the example of the specification: starts 10:00, 10:00, 09:00 given as
\* A, B, C have been drawn as B, A, C
C9_Witness ==
    /\ pc = "done"
    /\ StartTimes = <<"10:00", "10:00", "09:00">>
    /\ Descs = <<"B", "A", "C">>

RowsOfKind(kind) == {p \in DOMAIN table : table[p].kind = kind}

\* the position of the k-th entry row
EntryRowAt(k) ==
    CHOOSE p \in RowsOfKind("entry") :
        Cardinality({q \in RowsOfKind("entry") : q <= p}) = k

\* the day row above position p
DayRowAbove(p) ==
    CHOOSE d \in RowsOfKind("day") :
        d < p /\ \A e \in RowsOfKind("day") : e < p => e <= d

DaysOfEntries == {date_naive(entries[i].start) : i \in DOMAIN entries}

\* C10: the table is the column header, then one day row per distinct UTC
\* day of the entries, each followed by exactly the entries of that day in
\* post-sort order; every entry has exactly one row.
C10_OneDayRowPerDay ==
    pc = "done" =>
        /\ table[1] = HeaderRow
        /\ RowsOfKind("columns") = {1}
        /\ Cardinality(RowsOfKind("entry")) = Len(entries)
        /\ Cardinality(RowsOfKind("day")) = Cardinality(DaysOfEntries)
        /\ \A d \in RowsOfKind("day") : (d + 1) \in RowsOfKind("entry")
        /\ \A k \in DOMAIN entries :
              /\ table[EntryRowAt(k)] = EntryRow(entries[k])
              /\ \E d \in RowsOfKind("day") : d < EntryRowAt(k)
              /\ table[DayRowAbove(EntryRowAt(k))].cells =
                     <<FormatDate(entries[k].start)>>

\* three entries of two days have been drawn under two day rows, the two
\* entries of the later day first
C10_Witness ==
    /\ pc = "done"
    /\ Len(entries) = 3
    /\ Cardinality(DaysOfEntries) = 2
    /\ Cardinality(RowsOfKind("day")) = 2
    /\ [p \in DOMAIN table |-> table[p].kind] =
           <<"columns", "day", "entry", "entry", "day", "entry">>

====
